---- MODULE Spec2Model ----
(***************************************************************************)
(* Event queues (src/src/events.c): a bounded FIFO of event records fed by *)
(* event sources and drained by a consumer, with a mutex, a condition      *)
(* variable and reference-counted records.                                 *)
(*                                                                         *)
(* Every thread is a small program counter machine.  One action is one     *)
(* step of a function of events.c between two points where another thread  *)
(* can observe or interfere: a mutex acquisition, a critical section up to *)
(* its unlock or condition wait, a callback into the event source, or one  *)
(* unlocked access to a vector.  The _AL_VECTOR primitives are atomic.     *)
(***************************************************************************)
EXTENDS Integers, Sequences, FiniteSets, TLC

\* Capacity of a queue.  events.c:34 sets 512; the model scales it down so
\* that a full buffer is reachable with NumEvents records.
MAX_QUEUE_SIZE == 2

\* Number of event records the sources can emit in one behaviour.
NumEvents == 3

Queues == {1, 2}
Sources == {1, 2}
Events == 1 .. NumEvents

\* NULL, as an event pointer.
NoEvent == 0
NoThread == "none"

Producers == {"p1", "p2"}
Consumers == {"c1", "c2"}
Threads == Producers \cup Consumers
\* The [primary thread] of events.c: the one that owns the queue.
Primary == "c1"

\* event->any.source: fixed when the source builds the record.
SourceOf(e) == ((e - 1) % 2) + 1
\* Each event source emits from its own thread.
SourceOfProducer(p) == IF p = "p1" THEN 1 ELSE 2
ProducerOf(s) == IF s = 1 THEN "p1" ELSE "p2"

VARIABLES
  events,     \* queue->events: [Queues -> Seq(Events)]
  sources,    \* queue->sources: [Queues -> Seq(Sources)]
  mutex,      \* queue->mutex: the thread that holds it, or NoThread
  waiting,    \* queue->cond: threads blocked in a condition wait, not yet signalled
  alive,      \* queues created and not yet destroyed
  refcount,   \* event->any._refcount
  srcQueues,  \* per source: the queues it was told it is registered with
  emitted,    \* records a source has already built and emitted
  pc,         \* per thread: position in the code
  loc,        \* per thread: arguments and locals of the running call
  retval,     \* per thread: result of the last call
  retEvent,   \* per thread: the caller's ALLEGRO_EVENT (ret_event)
  hist,       \* history: what the queues did so far
  gh          \* per thread history of the running (or last) call

vars == <<events, sources, mutex, waiting, alive, refcount, srcQueues, emitted,
          pc, loc, retval, retEvent, hist, gh>>

qvars == <<events, sources, mutex, waiting, alive>>

Min(S) == CHOOSE x \in S : \A y \in S : x <= y
Range(f) == {f[i] : i \in DOMAIN f}
IsPrefix(a, b) == Len(a) <= Len(b) /\ SubSeq(b, 1, Len(a)) = a

(***************************************************************************)
(* _AL_VECTOR primitives (indices are 0-based as in C).                    *)
(***************************************************************************)
_al_vector_size(vec) == Len(vec)
_al_vector_is_empty(vec) == Len(vec) = 0
_al_vector_is_nonempty(vec) == Len(vec) > 0
_al_vector_ref(vec, i) == vec[i + 1]
_al_vector_ref_front(vec) == vec[1]
_al_vector_ref_back(vec) == vec[Len(vec)]
_al_vector_alloc_back(vec, x) == Append(vec, x)
_al_vector_delete_at(vec, i) ==
  [k \in 1 .. (Len(vec) - 1) |-> IF k <= i THEN vec[k] ELSE vec[k + 1]]
_al_vector_contains(vec, x) == \E k \in 1 .. Len(vec) : vec[k] = x
_al_vector_find(vec, x) == Min({k \in 1 .. Len(vec) : vec[k] = x}) - 1
_al_vector_find_and_delete(vec, x) ==
  IF _al_vector_contains(vec, x)
  THEN _al_vector_delete_at(vec, _al_vector_find(vec, x))
  ELSE vec

(***************************************************************************)
(* Locals of a call, and the per-call history.                             *)
(***************************************************************************)
NoLoc ==
  [q |-> 0, src |-> 0, ev |-> NoEvent, i |-> 0, todo |-> {}, result |-> 0,
   copy |-> FALSE, rel |-> FALSE, timed_out |-> FALSE, caller |-> "idle"]

NoCall ==
  [op |-> "none", q |-> 0, src |-> 0,
   copy |-> FALSE,        \* the caller gave a destination (ret_event)
   removed |-> <<>>,      \* records this call took out of the buffer
   released |-> <<>>,     \* records this call released
   cbs |-> <<>>,          \* callbacks into the source made by this call
   sawEmpty |-> FALSE,    \* the buffer was empty when the call looked at it
   leftEmpty |-> FALSE,   \* ... and still empty when the call unlocked
   sawHead |-> NoEvent,   \* the head of the buffer when the call looked at it
   waits |-> 0,           \* condition waits entered (counted up to 2)
   signalled |-> FALSE,   \* a broadcast ended a condition wait of this call
   found |-> FALSE,       \* register, unregister: the source was found a member
   snap |-> <<>>,         \* the buffer when the call was made
   srcSnap |-> <<>>,      \* the membership list when the call was made
   accSnap |-> <<>>]      \* the pushes accepted so far when the call was made

\* Nothing was observed at the head of a buffer.
NoSeen == [ev |-> NoEvent, by |-> "none"]

NoCopy == [id |-> NoEvent, source |-> 0, refcount |-> 0]

\* _al_copy_event: the value of the record, with the bookkeeping fields reset.
_al_copy_event(src) == [id |-> src, source |-> SourceOf(src), refcount |-> 0]

InitHist ==
  [accepted  |-> [q \in Queues |-> <<>>],
   removed   |-> [q \in Queues |-> <<>>],
   signals   |-> [q \in Queues |-> 0],
   purged    |-> [q \in Queues |-> FALSE],
   seen      |-> [q \in Queues |-> NoSeen],
   relCount  |-> [q \in Queues |-> [e \in Events |-> 0]],
   recycled  |-> {},
   cbHeld    |-> {},
   asserts   |-> {}]

Init ==
  /\ events = [q \in Queues |-> <<>>]
  /\ sources = [q \in Queues |-> <<>>]
  /\ mutex = [q \in Queues |-> NoThread]
  /\ waiting = [q \in Queues |-> {}]
  /\ alive = Queues
  /\ refcount = [e \in Events |-> 0]
  /\ srcQueues = [s \in Sources |-> {}]
  /\ emitted = {}
  /\ pc = [t \in Threads |-> "idle"]
  /\ loc = [t \in Threads |-> NoLoc]
  /\ retval = [t \in Threads |-> "none"]
  /\ retEvent = [t \in Threads |-> NoCopy]
  /\ hist = InitHist
  /\ gh = [t \in Threads |-> NoCall]

(***************************************************************************)
(* The event source side: only its interface is in events.c.  A source     *)
(* serialises its own emit, its registration hooks and the release of its  *)
(* records; it holds that lock for the whole fan-out of one emit.          *)
(***************************************************************************)
SrcLocked(s) == pc[ProducerOf(s)] # "idle"

\* _al_release_event: drop one reference; at zero the record goes back to
\* its source (the release hook).
ReleaseEnabled(e) == ~SrcLocked(SourceOf(e))
ReleasedCount(e) == refcount[e] - 1
\* History of a release made by thread t on behalf of queue q: cbHeld
\* collects the callbacks made while t held q's mutex.
HistRelease(t, q, e) ==
  [hist EXCEPT !.relCount[q][e] = @ + 1,
               !.recycled = IF ReleasedCount(e) = 0 THEN @ \cup {e} ELSE @,
               !.cbHeld = IF mutex[q] = t THEN @ \cup {<<"release", gh[t].op>>} ELSE @]
HistCallback(t, q, kind) ==
  [hist EXCEPT !.cbHeld = IF mutex[q] = t THEN @ \cup {<<kind, gh[t].op>>} ELSE @]
\* The per-call history of a release.
CallRelease(t, e) ==
  [gh EXCEPT ![t].released = Append(@, e), ![t].cbs = Append(@, "release")]

\* A C bool as the result of a call ("void" and "none" are the other results).
Bool(b) == IF b THEN "true" ELSE "false"

\* Return from the outermost call of thread t with result rv.
Return(t, rv) ==
  /\ pc' = [pc EXCEPT ![t] = "idle"]
  /\ loc' = [loc EXCEPT ![t] = NoLoc]
  /\ retval' = [retval EXCEPT ![t] = rv]

\* A source builds its next record and starts pushing it to the queues it
\* is registered with.
EmitBegin(p) ==
  LET s == SourceOfProducer(p)
      cand == {e \in Events : SourceOf(e) = s /\ e \notin emitted}
  IN /\ pc[p] = "idle"
     /\ srcQueues[s] # {}
     /\ cand # {}
     /\ emitted' = emitted \cup {Min(cand)}
     /\ loc' = [loc EXCEPT ![p] = [NoLoc EXCEPT !.ev = Min(cand),
                                               !.q = Min(srcQueues[s]),
                                               !.todo = srcQueues[s] \ {Min(srcQueues[s])}]]
     /\ pc' = [pc EXCEPT ![p] = "push_lock"]
     /\ UNCHANGED <<qvars, refcount, srcQueues, retval, retEvent, hist, gh>>

\* After one push: the next queue of the fan-out, or the end of the emit.
EmitLoop(p) ==
  /\ pc[p] = "emit_loop"
  /\ IF loc[p].todo = {}
     THEN /\ pc' = [pc EXCEPT ![p] = "idle"]
          /\ loc' = [loc EXCEPT ![p] = NoLoc]
     ELSE /\ pc' = [pc EXCEPT ![p] = "push_lock"]
          /\ loc' = [loc EXCEPT ![p].q = Min(loc[p].todo),
                                ![p].todo = loc[p].todo \ {Min(loc[p].todo)}]
  /\ UNCHANGED <<qvars, refcount, srcQueues, emitted, retval, retEvent, hist, gh>>

(***************************************************************************)
(* _al_event_queue_push_event                                              *)
(***************************************************************************)
\* Mutation of PushAccepts: the capacity test is off by one.
PushAcceptsOneMore(vec) == _al_vector_size(vec) <= MAX_QUEUE_SIZE
\* events.c:417
PushAccepts(vec) == _al_vector_size(vec) < MAX_QUEUE_SIZE
\* Mutation of PushVector: a full buffer evicts its oldest record.
PushVectorEvictsOldest(vec, e) ==
  IF PushAccepts(vec) THEN _al_vector_alloc_back(vec, e)
  ELSE _al_vector_alloc_back(_al_vector_delete_at(vec, 0), e)
\* events.c:417-425: the buffer after the push
PushVector(vec, e) == IF PushAccepts(vec) THEN _al_vector_alloc_back(vec, e) ELSE vec
\* events.c:419: the record's reference count after the push
PushRefcount(vec, n) == IF PushAccepts(vec) THEN n + 1 ELSE n
\* Mutation of PushWaiters: the broadcast is left out.
PushNoBroadcast(vec, w) == w
\* events.c:433: the waiters left blocked after the push
PushWaiters(vec, w) == IF PushAccepts(vec) THEN {} ELSE w

\* events.c:415
PushLock(p) ==
  /\ pc[p] = "push_lock"
  /\ mutex[loc[p].q] = NoThread
  /\ mutex' = [mutex EXCEPT ![loc[p].q] = p]
  /\ pc' = [pc EXCEPT ![p] = "push_body"]
  /\ UNCHANGED <<events, sources, waiting, alive, refcount, srcQueues, emitted,
                 loc, retval, retEvent, hist, gh>>

\* events.c:417-436
PushBody(p) ==
  LET q == loc[p].q
      e == loc[p].ev
  IN /\ pc[p] = "push_body"
     /\ events' = [events EXCEPT ![q] = PushVector(events[q], e)]
     /\ refcount' = [refcount EXCEPT ![e] = PushRefcount(events[q], @)]
     /\ waiting' = [waiting EXCEPT ![q] = PushWaiters(events[q], @)]
     /\ mutex' = [mutex EXCEPT ![q] = NoThread]
     /\ hist' = [hist EXCEPT
                   !.accepted[q] = IF PushAccepts(events[q]) THEN Append(@, e) ELSE @,
                   !.signals[q] = IF PushWaiters(events[q], {NoThread}) = {}
                                  THEN @ + 1 ELSE @]
     /\ gh' = [t \in Threads |->
                 IF t \in waiting[q] \ PushWaiters(events[q], waiting[q])
                 THEN [gh[t] EXCEPT !.signalled = TRUE]
                 ELSE gh[t]]
     /\ pc' = [pc EXCEPT ![p] = "emit_loop"]
     /\ UNCHANGED <<sources, alive, srcQueues, emitted, loc, retval, retEvent>>

(***************************************************************************)
(* get_next_event_if_any, get_peek_or_drop_next_event and their callers    *)
(***************************************************************************)
\* events.c:189-200: the pointer returned
get_next_event(vec) ==
  IF _al_vector_is_empty(vec) THEN NoEvent ELSE _al_vector_ref_front(vec)
\* Mutation of get_next_vector: the record deleted is the newest one.
get_next_vector_back(vec, delete) ==
  IF _al_vector_is_empty(vec) \/ ~delete THEN vec
  ELSE _al_vector_delete_at(vec, _al_vector_size(vec) - 1)
\* Mutation of get_next_vector: the head is deleted whatever the flag says.
get_next_vector_always(vec, delete) ==
  IF _al_vector_is_empty(vec) THEN vec ELSE _al_vector_delete_at(vec, 0)
\* events.c:196-197: the buffer afterwards
get_next_vector(vec, delete) ==
  IF _al_vector_is_empty(vec) \/ ~delete THEN vec ELSE _al_vector_delete_at(vec, 0)

\* The history of a removal by a consumer call (get, drop, wait): the
\* record handed out, when the buffer gave one up.
HistRemove(q, e, vec, vec2) ==
  [hist EXCEPT !.removed[q] = IF vec2 # vec THEN Append(@, e) ELSE @,
               !.seen[q] = IF vec2 # vec THEN NoSeen ELSE @]
\* The history of a look at the head that takes nothing out (peek, or a
\* wait without a destination): the record seen there by operation op.  It
\* is forgotten as soon as any record is taken out of the buffer.
HistObserve(q, e, op) ==
  IF e # NoEvent THEN [hist EXCEPT !.seen[q] = [ev |-> e, by |-> op]] ELSE hist

\* al_get_next_event (235-241), al_peek_next_event (252-258),
\* al_drop_next_event (266-271)
CallGetPeekDrop(t, q, op) ==
  /\ pc[t] = "idle"
  /\ q \in alive
  /\ pc' = [pc EXCEPT ![t] = "gpd_lock"]
  /\ loc' = [loc EXCEPT ![t] = [NoLoc EXCEPT !.q = q,
                                            !.copy = (op \in {"get", "peek"}),
                                            !.rel = (op \in {"get", "drop"})]]
  /\ gh' = [gh EXCEPT ![t] = [NoCall EXCEPT !.op = op, !.q = q,
                                            !.copy = (op \in {"get", "peek"})]]
  /\ retval' = [retval EXCEPT ![t] = "none"]
  /\ retEvent' = [retEvent EXCEPT ![t] = NoCopy]
  /\ UNCHANGED <<qvars, refcount, srcQueues, emitted, hist>>

\* events.c:213
GpdLock(t) ==
  /\ pc[t] = "gpd_lock"
  /\ mutex[loc[t].q] = NoThread
  /\ mutex' = [mutex EXCEPT ![loc[t].q] = t]
  /\ pc' = [pc EXCEPT ![t] = "gpd_take"]
  /\ UNCHANGED <<events, sources, waiting, alive, refcount, srcQueues, emitted,
                 loc, retval, retEvent, hist, gh>>

\* Mutation of GpdUnlock: the unlock is missed when the buffer was empty.
GpdUnlockOnlyOnEvent(m, q, next_event) ==
  IF next_event = NoEvent THEN m ELSE [m EXCEPT ![q] = NoThread]
\* events.c:215: the unlock comes before the test of next_event
GpdUnlock(m, q, next_event) == [m EXCEPT ![q] = NoThread]

\* events.c:214-215
GpdTake(t) ==
  LET q == loc[t].q
      e == get_next_event(events[q])
      vec2 == get_next_vector(events[q], loc[t].rel)
  IN /\ pc[t] = "gpd_take"
     /\ events' = [events EXCEPT ![q] = vec2]
     /\ mutex' = GpdUnlock(mutex, q, e)
     /\ loc' = [loc EXCEPT ![t].ev = e]
     /\ hist' = IF vec2 = events[q] /\ gh[t].op = "peek"
                THEN HistObserve(q, e, "peek")
                ELSE HistRemove(q, e, events[q], vec2)
     /\ gh' = [gh EXCEPT ![t].sawEmpty = (events[q] = <<>>),
                         ![t].leftEmpty = (events[q] = <<>> /\ vec2 = <<>>),
                         ![t].sawHead = IF events[q] = <<>> THEN NoEvent ELSE events[q][1],
                         ![t].removed = IF vec2 # events[q] THEN Append(@, e) ELSE @]
     /\ pc' = [pc EXCEPT ![t] = "gpd_after"]
     /\ UNCHANGED <<sources, waiting, alive, refcount, srcQueues, emitted,
                    retval, retEvent>>

\* Mutation of GpdResult: the NULL test is left out.
GpdResultAlwaysTrue(next_event) == TRUE
\* events.c:217-218 and 224: the value returned
GpdResult(next_event) == next_event # NoEvent

\* events.c:217-224
GpdAfter(t) ==
  LET q == loc[t].q
      e == loc[t].ev
  IN /\ pc[t] = "gpd_after"
     /\ IF e = NoEvent
        THEN /\ Return(t, IF gh[t].op = "drop" THEN "void" ELSE Bool(GpdResult(e)))
             /\ UNCHANGED <<refcount, retEvent, hist, gh>>
        ELSE /\ loc[t].rel => ReleaseEnabled(e)
             /\ retEvent' = [retEvent EXCEPT
                               ![t] = IF loc[t].copy THEN _al_copy_event(e) ELSE @]
             /\ refcount' = [refcount EXCEPT
                               ![e] = IF loc[t].rel THEN ReleasedCount(e) ELSE @]
             /\ hist' = IF loc[t].rel THEN HistRelease(t, q, e) ELSE hist
             /\ gh' = IF loc[t].rel THEN CallRelease(t, e) ELSE gh
             /\ Return(t, IF gh[t].op = "drop" THEN "void" ELSE Bool(GpdResult(e)))
     /\ UNCHANGED <<qvars, srcQueues, emitted>>

(***************************************************************************)
(* al_event_queue_is_empty                                                 *)
(***************************************************************************)
\* events.c:173-178 (no lock is taken)
IsEmpty(t, q) ==
  /\ pc[t] = "idle"
  /\ q \in alive
  /\ retval' = [retval EXCEPT ![t] = Bool(_al_vector_is_empty(events[q]))]
  /\ retEvent' = [retEvent EXCEPT ![t] = NoCopy]
  /\ gh' = [gh EXCEPT ![t] = [NoCall EXCEPT !.op = "is_empty", !.q = q]]
  /\ UNCHANGED <<qvars, refcount, srcQueues, emitted, pc, loc, hist>>

(***************************************************************************)
(* al_flush_event_queue                                                    *)
(***************************************************************************)
CallFlush(t, q) ==
  /\ pc[t] = "idle"
  /\ q \in alive
  /\ pc' = [pc EXCEPT ![t] = "flush_lock"]
  /\ loc' = [loc EXCEPT ![t] = [NoLoc EXCEPT !.q = q]]
  /\ gh' = [gh EXCEPT ![t] = [NoCall EXCEPT !.op = "flush", !.q = q,
                                            !.snap = events[q],
                                            !.accSnap = hist.accepted[q]]]
  /\ retval' = [retval EXCEPT ![t] = "none"]
  /\ retEvent' = [retEvent EXCEPT ![t] = NoCopy]
  /\ UNCHANGED <<qvars, refcount, srcQueues, emitted, hist>>

\* events.c:282 and events.c:293
FlushLock(t) ==
  /\ pc[t] = "flush_lock"
  /\ mutex[loc[t].q] = NoThread
  /\ mutex' = [mutex EXCEPT ![loc[t].q] = t]
  /\ pc' = [pc EXCEPT ![t] = "flush_loop"]
  /\ UNCHANGED <<events, sources, waiting, alive, refcount, srcQueues, emitted,
                 loc, retval, retEvent, hist, gh>>

\* Mutation of FlushUnlock: the release is made with the mutex held.
FlushKeepsLock(m, q) == m
\* events.c:291: the mutex is given up before the release
FlushUnlock(m, q) == [m EXCEPT ![q] = NoThread]

\* Mutation of FlushContinues: the loop stops at the last record.
FlushStopsAtOne(vec) == _al_vector_size(vec) > 1
\* events.c:284: the loop condition of the flush
FlushContinues(vec) == _al_vector_is_nonempty(vec)

\* events.c:284-291, and 296 when the buffer is empty
FlushLoop(t) ==
  LET q == loc[t].q
      i == _al_vector_size(events[q]) - 1
  IN /\ pc[t] = "flush_loop"
     /\ mutex' = IF FlushContinues(events[q])
                 THEN FlushUnlock(mutex, q)
                 ELSE [mutex EXCEPT ![q] = NoThread]
     /\ IF FlushContinues(events[q])
        THEN /\ loc' = [loc EXCEPT ![t].ev = _al_vector_ref(events[q], i), ![t].i = i]
             /\ events' = [events EXCEPT ![q] = _al_vector_delete_at(@, i)]
             /\ hist' = [hist EXCEPT !.purged[q] = TRUE, !.seen[q] = NoSeen]
             /\ gh' = [gh EXCEPT ![t].removed = Append(@, _al_vector_ref(events[q], i))]
             /\ pc' = [pc EXCEPT ![t] = "flush_release"]
             /\ UNCHANGED retval
        ELSE /\ Return(t, "void")
             /\ UNCHANGED <<events, hist, gh>>
     /\ UNCHANGED <<sources, waiting, alive, refcount, srcQueues, emitted, retEvent>>

\* events.c:292
FlushRelease(t) ==
  LET q == loc[t].q
      e == loc[t].ev
  IN /\ pc[t] = "flush_release"
     /\ ReleaseEnabled(e)
     /\ refcount' = [refcount EXCEPT ![e] = ReleasedCount(e)]
     /\ hist' = HistRelease(t, q, e)
     /\ gh' = CallRelease(t, e)
     /\ loc' = [loc EXCEPT ![t].ev = NoEvent, ![t].i = 0]
     /\ pc' = [pc EXCEPT ![t] = "flush_lock"]
     /\ UNCHANGED <<qvars, srcQueues, emitted, retval, retEvent>>

(***************************************************************************)
(* al_wait_for_event, wait_on_queue_forever, wait_on_queue_timed           *)
(***************************************************************************)
\* events.c:382-394: copy is "ret_event is not NULL", timed is
\* "msecs is not ALLEGRO_WAIT_FOREVER".
CallWait(t, q, copy, timed) ==
  /\ pc[t] = "idle"
  /\ q \in alive
  /\ pc' = [pc EXCEPT ![t] = IF timed THEN "wt_lock" ELSE "wf_lock"]
  /\ loc' = [loc EXCEPT ![t] = [NoLoc EXCEPT !.q = q, !.copy = copy]]
  /\ gh' = [gh EXCEPT ![t] = [NoCall EXCEPT
                                !.op = IF timed THEN "wait_timed" ELSE "wait_forever",
                                !.q = q, !.copy = copy]]
  /\ retval' = [retval EXCEPT ![t] = "none"]
  /\ retEvent' = [retEvent EXCEPT ![t] = NoCopy]
  /\ UNCHANGED <<qvars, refcount, srcQueues, emitted, hist>>

\* events.c:309, and the mutex taken again when _al_cond_wait returns (312)
WfLock(t) ==
  /\ pc[t] = "wf_lock" \/ (pc[t] = "wf_wait" /\ t \notin waiting[loc[t].q])
  /\ mutex[loc[t].q] = NoThread
  /\ mutex' = [mutex EXCEPT ![loc[t].q] = t]
  /\ pc' = [pc EXCEPT ![t] = "wf_check"]
  /\ UNCHANGED <<events, sources, waiting, alive, refcount, srcQueues, emitted,
                 loc, retval, retEvent, hist, gh>>

\* Mutation of WfKeepsWaiting: the wait goes on without looking.
WfNeverWaits(vec) == FALSE
\* events.c:311: the loop condition of the wait
WfKeepsWaiting(vec) == _al_vector_is_empty(vec)

\* events.c:311-317: one evaluation of the loop condition, then either the
\* condition wait (which gives the mutex up) or the rest up to the unlock.
WfCheck(t) ==
  LET q == loc[t].q
      e == get_next_event(events[q])
      vec2 == get_next_vector(events[q], TRUE)
  IN /\ pc[t] = "wf_check"
     /\ mutex' = [mutex EXCEPT ![q] = NoThread]
     /\ IF WfKeepsWaiting(events[q])
        THEN /\ waiting' = [waiting EXCEPT ![q] = @ \cup {t}]
             /\ pc' = [pc EXCEPT ![t] = "wf_wait"]
             /\ gh' = [gh EXCEPT ![t].waits = IF @ < 2 THEN @ + 1 ELSE @]
             /\ UNCHANGED <<events, loc, hist>>
        ELSE /\ pc' = [pc EXCEPT ![t] = "wf_after"]
             /\ gh' = [gh EXCEPT ![t].sawEmpty = (events[q] = <<>>),
                                 ![t].sawHead = IF events[q] = <<>> THEN NoEvent
                                                ELSE events[q][1],
                                 ![t].removed = IF loc[t].copy /\ vec2 # events[q]
                                                THEN Append(@, e) ELSE @]
             /\ IF loc[t].copy
                THEN /\ events' = [events EXCEPT ![q] = vec2]
                     /\ loc' = [loc EXCEPT ![t].ev = e]
                     /\ hist' = HistRemove(q, e, events[q], vec2)
                ELSE /\ hist' = HistObserve(q, e, "wait_forever")
                     /\ UNCHANGED <<events, loc>>
             /\ UNCHANGED waiting
     /\ UNCHANGED <<sources, alive, refcount, srcQueues, emitted, retval, retEvent>>

\* events.c:319-324 and the return of al_wait_for_event (389)
WfAfter(t) ==
  LET q == loc[t].q
      e == loc[t].ev
  IN /\ pc[t] = "wf_after"
     /\ IF ~loc[t].copy
        THEN /\ Return(t, Bool(TRUE))
             /\ UNCHANGED <<refcount, retEvent, hist, gh>>
        ELSE IF e = NoEvent
        THEN /\ hist' = [hist EXCEPT !.asserts = @ \cup {"wait_on_queue_forever"}]
             /\ pc' = [pc EXCEPT ![t] = "aborted"]
             /\ UNCHANGED <<loc, retval, refcount, retEvent, gh>>
        ELSE /\ ReleaseEnabled(e)
             /\ retEvent' = [retEvent EXCEPT ![t] = _al_copy_event(e)]
             /\ refcount' = [refcount EXCEPT ![e] = ReleasedCount(e)]
             /\ hist' = HistRelease(t, q, e)
             /\ gh' = CallRelease(t, e)
             /\ Return(t, Bool(TRUE))
     /\ UNCHANGED <<qvars, srcQueues, emitted>>

\* events.c:339, and the mutex taken again when _al_cond_timedwait returns
\* (348): result is 0 after a wake-up and -1 after a timeout.
WtLock(t) ==
  /\ \/ pc[t] = "wt_lock"
     \/ pc[t] = "wt_timedout"
     \/ (pc[t] = "wt_wait" /\ t \notin waiting[loc[t].q])
  /\ mutex[loc[t].q] = NoThread
  /\ mutex' = [mutex EXCEPT ![loc[t].q] = t]
  /\ loc' = [loc EXCEPT ![t].result = IF pc[t] = "wt_timedout" THEN -1 ELSE 0]
  /\ pc' = [pc EXCEPT ![t] = "wt_check"]
  /\ UNCHANGED <<events, sources, waiting, alive, refcount, srcQueues, emitted,
                 retval, retEvent, hist, gh>>

\* The deadline of _al_cond_timedwait passes before the waiter was signalled.
WtTimeout(t) ==
  /\ pc[t] = "wt_wait"
  /\ t \in waiting[loc[t].q]
  /\ waiting' = [waiting EXCEPT ![loc[t].q] = @ \ {t}]
  /\ pc' = [pc EXCEPT ![t] = "wt_timedout"]
  /\ UNCHANGED <<events, sources, mutex, alive, refcount, srcQueues, emitted,
                 loc, retval, retEvent, hist, gh>>

\* events.c:347: the loop condition of the timed wait
WtKeepsWaiting(vec, result) == _al_vector_is_empty(vec) /\ result # -1
\* Mutation of WtTimedOut: the result of the condition wait is ignored.
WtNeverTimedOut(result) == FALSE
\* events.c:350-351
WtTimedOut(result) == result = -1
\* Mutation of WtTakes: the "else" of line 352 is missing.
WtTakesAfterTimeout(result, ret_event) == ret_event
\* Mutation of WtTakes: the head is taken out without a destination too.
WtTakesWithoutDest(result, ret_event) == ~WtTimedOut(result)
\* events.c:350-353: whether the head is taken out
WtTakes(result, ret_event) == ~WtTimedOut(result) /\ ret_event

\* events.c:347-355
WtCheck(t) ==
  LET q == loc[t].q
      e == get_next_event(events[q])
      vec2 == get_next_vector(events[q], TRUE)
      take == WtTakes(loc[t].result, loc[t].copy)
  IN /\ pc[t] = "wt_check"
     /\ mutex' = [mutex EXCEPT ![q] = NoThread]
     /\ IF WtKeepsWaiting(events[q], loc[t].result)
        THEN /\ waiting' = [waiting EXCEPT ![q] = @ \cup {t}]
             /\ pc' = [pc EXCEPT ![t] = "wt_wait"]
             /\ gh' = [gh EXCEPT ![t].waits = IF @ < 2 THEN @ + 1 ELSE @]
             /\ UNCHANGED <<events, loc, hist>>
        ELSE /\ pc' = [pc EXCEPT ![t] = "wt_after"]
             /\ gh' = [gh EXCEPT ![t].sawEmpty = (events[q] = <<>>),
                                 ![t].sawHead = IF events[q] = <<>> THEN NoEvent
                                                ELSE events[q][1],
                                 ![t].removed = IF take /\ vec2 # events[q]
                                                THEN Append(@, e) ELSE @]
             /\ events' = [events EXCEPT ![q] = IF take THEN vec2 ELSE @]
             /\ loc' = [loc EXCEPT ![t].timed_out = WtTimedOut(loc[t].result),
                                   ![t].ev = IF take THEN e ELSE @]
             /\ hist' = IF take THEN HistRemove(q, e, events[q], vec2)
                        ELSE IF WtTimedOut(loc[t].result) THEN hist
                        ELSE HistObserve(q, e, "wait_timed")
             /\ UNCHANGED waiting
     /\ UNCHANGED <<sources, alive, refcount, srcQueues, emitted, retval, retEvent>>

\* events.c:357-367
WtAfter(t) ==
  LET q == loc[t].q
      e == loc[t].ev
  IN /\ pc[t] = "wt_after"
     /\ IF loc[t].timed_out
        THEN /\ Return(t, Bool(FALSE))
             /\ UNCHANGED <<refcount, retEvent, hist, gh>>
        ELSE IF ~loc[t].copy
        THEN /\ Return(t, Bool(TRUE))
             /\ UNCHANGED <<refcount, retEvent, hist, gh>>
        ELSE IF e = NoEvent
        THEN /\ hist' = [hist EXCEPT !.asserts = @ \cup {"wait_on_queue_timed"}]
             /\ pc' = [pc EXCEPT ![t] = "aborted"]
             /\ UNCHANGED <<loc, retval, refcount, retEvent, gh>>
        ELSE /\ ReleaseEnabled(e)
             /\ retEvent' = [retEvent EXCEPT ![t] = _al_copy_event(e)]
             /\ refcount' = [refcount EXCEPT ![e] = ReleasedCount(e)]
             /\ hist' = HistRelease(t, q, e)
             /\ gh' = CallRelease(t, e)
             /\ Return(t, Bool(TRUE))
     /\ UNCHANGED <<qvars, srcQueues, emitted>>

\* A condition wait may return without a signal (spurious wake-up).
SpuriousWake(t) ==
  /\ pc[t] \in {"wf_wait", "wt_wait"}
  /\ t \in waiting[loc[t].q]
  /\ waiting' = [waiting EXCEPT ![loc[t].q] = @ \ {t}]
  /\ UNCHANGED <<events, sources, mutex, alive, refcount, srcQueues, emitted,
                 pc, loc, retval, retEvent, hist, gh>>

(***************************************************************************)
(* al_register_event_source (no lock is taken)                             *)
(***************************************************************************)
CallRegister(t, q, s) ==
  /\ pc[t] = "idle"
  /\ q \in alive
  /\ pc' = [pc EXCEPT ![t] = "reg_check"]
  /\ loc' = [loc EXCEPT ![t] = [NoLoc EXCEPT !.q = q, !.src = s]]
  /\ gh' = [gh EXCEPT ![t] = [NoCall EXCEPT !.op = "register", !.q = q, !.src = s,
                                            !.srcSnap = sources[q]]]
  /\ retval' = [retval EXCEPT ![t] = "none"]
  /\ retEvent' = [retEvent EXCEPT ![t] = NoCopy]
  /\ UNCHANGED <<qvars, refcount, srcQueues, emitted, hist>>

\* events.c:116-117
RegCheck(t) ==
  /\ pc[t] = "reg_check"
  /\ IF _al_vector_contains(sources[loc[t].q], loc[t].src)
     THEN Return(t, "void")
     ELSE /\ pc' = [pc EXCEPT ![t] = "reg_notify"]
          /\ UNCHANGED <<loc, retval>>
  /\ gh' = [gh EXCEPT ![t].found = _al_vector_contains(sources[loc[t].q], loc[t].src)]
  /\ UNCHANGED <<qvars, refcount, srcQueues, emitted, retEvent, hist>>

\* events.c:119: _al_event_source_on_registration_to_queue
RegNotify(t) ==
  LET q == loc[t].q
      s == loc[t].src
  IN /\ pc[t] = "reg_notify"
     /\ ~SrcLocked(s)
     /\ srcQueues' = [srcQueues EXCEPT ![s] = @ \cup {q}]
     /\ hist' = HistCallback(t, q, "on_registered")
     /\ gh' = [gh EXCEPT ![t].cbs = Append(@, "on_registered")]
     /\ pc' = [pc EXCEPT ![t] = "reg_add"]
     /\ UNCHANGED <<qvars, refcount, emitted, loc, retval, retEvent>>

\* events.c:121-122
RegAdd(t) ==
  /\ pc[t] = "reg_add"
  /\ sources' = [sources EXCEPT ![loc[t].q] = _al_vector_alloc_back(@, loc[t].src)]
  /\ Return(t, "void")
  /\ UNCHANGED <<events, mutex, waiting, alive, refcount, srcQueues, emitted,
                 retEvent, hist, gh>>

(***************************************************************************)
(* al_unregister_event_source (no lock is taken)                           *)
(***************************************************************************)
CallUnregister(t, q, s) ==
  /\ pc[t] = "idle"
  /\ q \in alive
  /\ pc' = [pc EXCEPT ![t] = "unreg_find"]
  /\ loc' = [loc EXCEPT ![t] = [NoLoc EXCEPT !.q = q, !.src = s]]
  /\ gh' = [gh EXCEPT ![t] = [NoCall EXCEPT !.op = "unregister", !.q = q, !.src = s,
                                            !.snap = events[q],
                                            !.srcSnap = sources[q]]]
  /\ retval' = [retval EXCEPT ![t] = "none"]
  /\ retEvent' = [retEvent EXCEPT ![t] = NoCopy]
  /\ UNCHANGED <<qvars, refcount, srcQueues, emitted, hist>>

\* Return of al_unregister_event_source: to its caller, which is the
\* application or the loop of al_destroy_event_queue.
UnregReturn(t) ==
  IF loc[t].caller = "destroy_loop"
  THEN /\ pc' = [pc EXCEPT ![t] = "destroy_loop"]
       /\ loc' = [loc EXCEPT ![t] = [NoLoc EXCEPT !.q = loc[t].q]]
       /\ UNCHANGED retval
  ELSE Return(t, "void")

\* Mutation of UnregSources: the source stays in the membership list.
UnregKeepsMember(vec, s) == vec
\* events.c:142: the membership list after the call
UnregSources(vec, s) == _al_vector_find_and_delete(vec, s)

\* events.c:142-143
UnregFind(t) ==
  LET q == loc[t].q
      s == loc[t].src
  IN /\ pc[t] = "unreg_find"
     /\ sources' = [sources EXCEPT ![q] = UnregSources(@, s)]
     /\ gh' = [gh EXCEPT ![t].found = _al_vector_contains(sources[q], s)]
     /\ IF _al_vector_contains(sources[q], s)
        THEN /\ pc' = [pc EXCEPT ![t] = "unreg_notify"]
             /\ UNCHANGED <<loc, retval>>
        ELSE UnregReturn(t)
     /\ UNCHANGED <<events, mutex, waiting, alive, refcount, srcQueues, emitted,
                    retEvent, hist>>

\* events.c:146: _al_event_source_on_unregistration_from_queue, then i = 0
UnregNotify(t) ==
  LET q == loc[t].q
      s == loc[t].src
  IN /\ pc[t] = "unreg_notify"
     /\ ~SrcLocked(s)
     /\ srcQueues' = [srcQueues EXCEPT ![s] = @ \ {q}]
     /\ hist' = HistCallback(t, q, "on_unregistered")
     /\ gh' = [gh EXCEPT ![t].cbs = Append(@, "on_unregistered")]
     /\ loc' = [loc EXCEPT ![t].i = 0]
     /\ pc' = [pc EXCEPT ![t] = "unreg_loop"]
     /\ UNCHANGED <<qvars, refcount, emitted, retval, retEvent>>

\* Mutation of UnregNextIndex: the index moves on after a deletion too.
UnregAlwaysAdvances(i, deleted) == i + 1
\* events.c:158-163: the index looked at next; it only moves on past a
\* record that stays.
UnregNextIndex(i, deleted) == IF deleted THEN i ELSE i + 1

\* events.c:154-158 and 162-163: one evaluation of the loop condition and
\* the test of the record at index i
UnregLoop(t) ==
  LET q == loc[t].q
      i == loc[t].i
  IN /\ pc[t] = "unreg_loop"
     /\ IF i < _al_vector_size(events[q])
        THEN IF SourceOf(_al_vector_ref(events[q], i)) = loc[t].src
             THEN /\ loc' = [loc EXCEPT ![t].ev = _al_vector_ref(events[q], i)]
                  /\ pc' = [pc EXCEPT ![t] = "unreg_release"]
                  /\ UNCHANGED retval
             ELSE /\ loc' = [loc EXCEPT ![t].i = UnregNextIndex(i, FALSE)]
                  /\ UNCHANGED <<pc, retval>>
        ELSE UnregReturn(t)
     /\ UNCHANGED <<qvars, refcount, srcQueues, emitted, retEvent, hist, gh>>

\* events.c:159
UnregRelease(t) ==
  LET q == loc[t].q
      e == loc[t].ev
  IN /\ pc[t] = "unreg_release"
     /\ ReleaseEnabled(e)
     /\ refcount' = [refcount EXCEPT ![e] = ReleasedCount(e)]
     /\ hist' = HistRelease(t, q, e)
     /\ gh' = CallRelease(t, e)
     /\ pc' = [pc EXCEPT ![t] = "unreg_delete"]
     /\ UNCHANGED <<qvars, srcQueues, emitted, loc, retval, retEvent>>

\* events.c:160
UnregDelete(t) ==
  LET q == loc[t].q
      i == loc[t].i
  IN /\ pc[t] = "unreg_delete"
     /\ i < _al_vector_size(events[q])
     /\ events' = [events EXCEPT ![q] = _al_vector_delete_at(@, i)]
     /\ hist' = [hist EXCEPT !.purged[q] = TRUE, !.seen[q] = NoSeen]
     /\ gh' = [gh EXCEPT ![t].removed = Append(@, _al_vector_ref(events[q], i))]
     /\ loc' = [loc EXCEPT ![t].ev = NoEvent, ![t].i = UnregNextIndex(i, TRUE)]
     /\ pc' = [pc EXCEPT ![t] = "unreg_loop"]
     /\ UNCHANGED <<sources, mutex, waiting, alive, refcount, srcQueues, emitted,
                    retval, retEvent>>

\* events.c:160 racing with events.c:419-433.  al_unregister_event_source
\* holds no mutex, so its _al_vector_delete_at can run while a producer is
\* inside the critical section of an accepted push on the same vector.  The
\* two unsynchronised updates of the vector then overlap (a data race): both
\* may take effect, which the interleavings of UnregDelete and PushBody
\* give, or one of the two updates is lost, which this action gives.
\* Everything else the two threads do in these steps happens as usual.
UnregDeleteRace(t) ==
  LET q == loc[t].q
      i == loc[t].i
  IN /\ pc[t] = "unreg_delete"
     /\ i < _al_vector_size(events[q])
     /\ \E p \in Producers, lost \in {"push", "delete"} :
          /\ pc[p] = "push_body"
          /\ loc[p].q = q
          /\ mutex[q] = p
          /\ PushAccepts(events[q])
          /\ events' = [events EXCEPT
                          ![q] = IF lost = "push"
                                 THEN _al_vector_delete_at(@, i)
                                 ELSE _al_vector_alloc_back(@, loc[p].ev)]
          /\ refcount' = [refcount EXCEPT ![loc[p].ev] = PushRefcount(events[q], @)]
          /\ waiting' = [waiting EXCEPT ![q] = PushWaiters(events[q], @)]
          /\ mutex' = [mutex EXCEPT ![q] = NoThread]
          /\ hist' = [hist EXCEPT
                        !.accepted[q] = Append(@, loc[p].ev),
                        !.signals[q] = IF PushWaiters(events[q], {NoThread}) = {}
                                       THEN @ + 1 ELSE @,
                        !.purged[q] = TRUE,
                        !.seen[q] = NoSeen]
          /\ gh' = [gh EXCEPT
                      ![t].removed = IF lost = "push"
                                     THEN Append(@, _al_vector_ref(events[q], i))
                                     ELSE @]
          /\ loc' = [loc EXCEPT ![t].ev = NoEvent, ![t].i = UnregNextIndex(i, TRUE)]
          /\ pc' = [pc EXCEPT ![t] = "unreg_loop", ![p] = "emit_loop"]
     /\ UNCHANGED <<sources, alive, srcQueues, emitted, retval, retEvent>>

(***************************************************************************)
(* al_destroy_event_queue                                                  *)
(***************************************************************************)
CallDestroy(t, q) ==
  /\ pc[t] = "idle"
  /\ q \in alive
  /\ pc' = [pc EXCEPT ![t] = "destroy_loop"]
  /\ loc' = [loc EXCEPT ![t] = [NoLoc EXCEPT !.q = q]]
  /\ gh' = [gh EXCEPT ![t] = [NoCall EXCEPT !.op = "destroy", !.q = q,
                                            !.snap = events[q],
                                            !.srcSnap = sources[q]]]
  /\ retval' = [retval EXCEPT ![t] = "none"]
  /\ retEvent' = [retEvent EXCEPT ![t] = NoCopy]
  /\ UNCHANGED <<qvars, refcount, srcQueues, emitted, hist>>

\* events.c:84-98: one evaluation of the loop condition; then either the
\* call of al_unregister_event_source or the two assertions and the free.
DestroyLoop(t) ==
  LET q == loc[t].q
  IN /\ pc[t] = "destroy_loop"
     /\ IF _al_vector_is_nonempty(sources[q])
        THEN /\ loc' = [loc EXCEPT ![t].src = _al_vector_ref_back(sources[q]),
                                   ![t].caller = "destroy_loop"]
             /\ pc' = [pc EXCEPT ![t] = "unreg_find"]
             /\ UNCHANGED <<alive, hist, retval>>
        ELSE /\ hist' = [hist EXCEPT !.asserts = @ \cup
                           (IF _al_vector_is_empty(events[q]) THEN {}
                            ELSE {"al_destroy_event_queue"})]
             /\ alive' = alive \ {q}
             /\ Return(t, "void")
     /\ UNCHANGED <<events, sources, mutex, waiting, refcount, srcQueues, emitted,
                    retEvent, gh>>

(***************************************************************************)
(* Specifications                                                          *)
(***************************************************************************)
ProducerStep(p) ==
  \/ EmitBegin(p)
  \/ EmitLoop(p)
  \/ PushLock(p)
  \/ PushBody(p)

\* The steps of the calls that any consumer thread may have in progress.
GpdStep(t) ==
  \/ GpdLock(t)
  \/ GpdTake(t)
  \/ GpdAfter(t)

WaitForeverStep(t) ==
  \/ WfLock(t)
  \/ WfCheck(t)
  \/ WfAfter(t)

RegisterStep(t) ==
  \/ RegCheck(t)
  \/ RegNotify(t)
  \/ RegAdd(t)

ConsumerStep(t) ==
  \/ GpdLock(t)
  \/ GpdTake(t)
  \/ GpdAfter(t)
  \/ WfLock(t)
  \/ WfCheck(t)
  \/ WfAfter(t)
  \/ WtLock(t)
  \/ WtTimeout(t)
  \/ WtCheck(t)
  \/ WtAfter(t)

\* The steps of the calls only the primary thread makes.
PrimaryStep(t) ==
  \/ FlushLock(t)
  \/ FlushLoop(t)
  \/ FlushRelease(t)
  \/ RegCheck(t)
  \/ RegNotify(t)
  \/ RegAdd(t)
  \/ UnregFind(t)
  \/ UnregNotify(t)
  \/ UnregLoop(t)
  \/ UnregRelease(t)
  \/ UnregDelete(t)
  \/ UnregDeleteRace(t)
  \/ DestroyLoop(t)

\* The calls any consumer thread makes, on the queues of Q.
ConsumerCall(t, Q) ==
  \/ \E q \in Q, op \in {"get", "peek", "drop"} : CallGetPeekDrop(t, q, op)
  \/ \E q \in Q, copy \in BOOLEAN, timed \in BOOLEAN : CallWait(t, q, copy, timed)

\* The calls only the primary thread makes.
PrimaryCall(t, Q) ==
  \/ \E q \in Q : IsEmpty(t, q)
  \/ \E q \in Q : CallFlush(t, q)
  \/ \E q \in Q, s \in Sources : CallRegister(t, q, s)
  \/ \E q \in Q, s \in Sources : CallUnregister(t, q, s)
  \/ \E q \in Q : CallDestroy(t, q)

\* One queue, every operation of events.c: the primary thread drives the
\* queue while the two sources emit concurrently.
Next ==
  \/ \E p \in Producers : ProducerStep(p)
  \/ ConsumerCall(Primary, {1})
  \/ ConsumerStep(Primary)
  \/ PrimaryCall(Primary, {1})
  \/ PrimaryStep(Primary)
  \/ SpuriousWake(Primary)

Spec == Init /\ [][Next]_vars

\* Several consumer threads on one queue: the primary thread registers
\* source 1, and both consumers wait (with and without removal, with and
\* without timeout) and poll.
NextWaiters ==
  \/ \E p \in Producers : ProducerStep(p)
  \/ CallRegister(Primary, 1, 1)
  \/ RegisterStep(Primary)
  \/ \E t \in Consumers, copy \in BOOLEAN, timed \in BOOLEAN : CallWait(t, 1, copy, timed)
  \/ \E t \in Consumers : CallGetPeekDrop(t, 1, "get")
  \/ \E t \in Consumers : ConsumerStep(t)
  \/ \E t \in Consumers : SpuriousWake(t)

SpecWaiters == Init /\ [][NextWaiters]_vars

\* One consumer that only waits forever.  Fairness: a thread that is inside
\* a call keeps running (the scheduler and the mutex are fair); nothing
\* forces a source to emit, the application to call, or a condition wait to
\* wake up without a signal.
NextLive ==
  \/ \E p \in Producers : ProducerStep(p)
  \/ \E s \in Sources : CallRegister(Primary, 1, s)
  \/ RegisterStep(Primary)
  \/ \E copy \in BOOLEAN : CallWait(Primary, 1, copy, FALSE)
  \/ WaitForeverStep(Primary)
  \/ SpuriousWake(Primary)

Fairness ==
  /\ \A p \in Producers : WF_vars(EmitLoop(p) \/ PushLock(p) \/ PushBody(p))
  /\ WF_vars(RegisterStep(Primary))
  /\ WF_vars(WaitForeverStep(Primary))

SpecLive == Init /\ [][NextLive]_vars /\ Fairness

\* The steps of al_register_event_source and al_unregister_event_source on
\* the membership list.
MemberStep(t) ==
  \/ RegCheck(t)
  \/ RegNotify(t)
  \/ RegAdd(t)
  \/ UnregFind(t)
  \/ UnregNotify(t)
  \/ UnregLoop(t)

\* Two application threads register and unregister the sources with one
\* queue, in any order and at the same time; no source emits.
NextMembers ==
  \/ \E t \in Consumers, s \in Sources : CallRegister(t, 1, s)
  \/ \E t \in Consumers, s \in Sources : CallUnregister(t, 1, s)
  \/ \E t \in Consumers : MemberStep(t)

SpecMembers == Init /\ [][NextMembers]_vars

FlushStep(t) ==
  \/ FlushLock(t)
  \/ FlushLoop(t)
  \/ FlushRelease(t)

\* The steps of al_destroy_event_queue, with those of the
\* al_unregister_event_source it calls.
DestroyStep(t) ==
  \/ DestroyLoop(t)
  \/ UnregFind(t)
  \/ UnregNotify(t)
  \/ UnregLoop(t)
  \/ UnregRelease(t)
  \/ UnregDelete(t)
  \/ UnregDeleteRace(t)

\* The owner of a queue registers the sources, polls, flushes and at last
\* destroys the queue, while the sources emit.  Fairness: a thread that is
\* inside a call keeps running; nothing forces a source to emit or the
\* owner to make a call.
NextOwner ==
  \/ \E p \in Producers : ProducerStep(p)
  \/ \E s \in Sources : CallRegister(Primary, 1, s)
  \/ RegisterStep(Primary)
  \/ IsEmpty(Primary, 1)
  \/ CallFlush(Primary, 1)
  \/ FlushStep(Primary)
  \/ CallDestroy(Primary, 1)
  \/ DestroyStep(Primary)

FairnessOwner ==
  /\ \A p \in Producers : WF_vars(EmitLoop(p) \/ PushLock(p) \/ PushBody(p))
  /\ WF_vars(RegisterStep(Primary))
  /\ WF_vars(FlushStep(Primary))
  /\ WF_vars(DestroyStep(Primary))

SpecOwnerLive == Init /\ [][NextOwner]_vars /\ FairnessOwner

\* Consumers blocked in wait while others poll: the primary thread registers
\* source 1, and each consumer either waits forever (with or without a
\* destination) or calls get_next, peek_next or drop_next, while the source
\* emits.  Fairness: a thread inside a push or inside get_next, peek_next
\* or drop_next keeps running, and gets the mutex if it is free again and
\* again (a fair mutex); so does a waiter that holds the mutex, up to its
\* unlock or condition wait.  Nothing else is forced: a blocked consumer
\* may stay blocked, a woken one may never get the mutex back.
NextBlocked ==
  \/ \E p \in Producers : ProducerStep(p)
  \/ CallRegister(Primary, 1, 1)
  \/ RegisterStep(Primary)
  \/ \E t \in Consumers, op \in {"get", "peek", "drop"} : CallGetPeekDrop(t, 1, op)
  \/ \E t \in Consumers, copy \in BOOLEAN : CallWait(t, 1, copy, FALSE)
  \/ \E t \in Consumers : GpdStep(t)
  \/ \E t \in Consumers : WaitForeverStep(t)
  \/ \E t \in Consumers : SpuriousWake(t)

FairnessBlocked ==
  /\ \A p \in Producers : WF_vars(EmitLoop(p) \/ PushBody(p)) /\ SF_vars(PushLock(p))
  /\ \A t \in Consumers : WF_vars(GpdTake(t) \/ GpdAfter(t)) /\ SF_vars(GpdLock(t))
  /\ \A t \in Consumers : WF_vars(WfCheck(t))

SpecBlocked == Init /\ [][NextBlocked]_vars /\ FairnessBlocked

\* Two queues fed by the same source: the primary thread registers source 1
\* with both queues and takes records out of either, so that one record is
\* held by two buffers at once.
NextShared ==
  \/ \E p \in Producers : ProducerStep(p)
  \/ \E q \in Queues : CallRegister(Primary, q, 1)
  \/ RegisterStep(Primary)
  \/ \E q \in Queues, op \in {"get", "drop"} : CallGetPeekDrop(Primary, q, op)
  \/ GpdStep(Primary)

SpecShared == Init /\ [][NextShared]_vars

(***************************************************************************)
(* Properties                                                              *)
(***************************************************************************)
From(s, vec) == SelectSeq(vec, LAMBDA e : SourceOf(e) = s)
NotFrom(s, vec) == SelectSeq(vec, LAMBDA e : SourceOf(e) # s)
NoDuplicates(vec) == \A i, j \in 1 .. Len(vec) : i # j => vec[i] # vec[j]
Count(vec, x) == Cardinality({k \in 1 .. Len(vec) : vec[k] = x})
IsWaitOp(op) == op \in {"wait_forever", "wait_timed"}

\* C1: strict FIFO delivery.  As long as no flush and no unregister purge
\* took a record out of a queue, the records its consumer removed (by
\* get_next, drop_next or a removing wait), followed by the records still
\* buffered, are exactly the records whose push was accepted, in the order
\* of acceptance: nothing is skipped, reordered or delivered twice.
C1_StrictFifo ==
  \A q \in Queues :
    ~hist.purged[q] => hist.accepted[q] = hist.removed[q] \o events[q]

\* Two records were delivered, the first of them pushed by the source that
\* emits the higher-numbered records, and a third one is still buffered.
C1_Witness ==
  /\ ~hist.purged[1]
  /\ Len(hist.removed[1]) >= 2
  /\ hist.removed[1][1] > hist.removed[1][2]
  /\ events[1] # <<>>

\* C2: capacity invariant.  In every reachable state every buffer holds
\* between 0 and MAX_QUEUE_SIZE records.
C2_Capacity ==
  \A q \in Queues : Len(events[q]) \in 0 .. MAX_QUEUE_SIZE

\* A push holds the mutex of a queue whose buffer is full.
C2_Witness ==
  \E p \in Producers :
    /\ pc[p] = "push_body"
    /\ Len(events[loc[p].q]) = MAX_QUEUE_SIZE

C3_OverflowStep(p) ==
  LET q == loc[p].q
  IN (pc[p] = "push_body" /\ pc'[p] # "push_body"
        /\ Len(events[q]) = MAX_QUEUE_SIZE)
     => /\ events' = events
        /\ refcount' = refcount
        /\ waiting' = waiting
        /\ hist' = hist
        /\ pc'[p] = "emit_loop"
        /\ mutex'[q] = NoThread

\* C3: overflow drops the incoming record and nothing else.  The critical
\* section of a push that finds the buffer full leaves every buffer, every
\* reference count and the set of blocked waiters as they were, issues no
\* broadcast, fails no assertion, accepts nothing, and ends with the mutex
\* free and the push returned to the emitting source.
C3_OverflowDropsIncoming == [][\A p \in Producers : C3_OverflowStep(p)]_vars

\* A push has returned without its record being accepted: the buffer is
\* full of older records and the record's count is still zero.
C3_Witness ==
  \E p \in Producers :
    /\ pc[p] = "emit_loop"
    /\ Len(events[loc[p].q]) = MAX_QUEUE_SIZE
    /\ loc[p].ev \notin Range(hist.accepted[loc[p].q])
    /\ refcount[loc[p].ev] = 0

\* C4: no source callback runs under the queue lock.  No thread ever made
\* on_registered, on_unregistered or a release on behalf of a queue while
\* it held that queue's mutex.
C4_NoCallbackUnderLock == hist.cbHeld = {}

\* A flush has released two records and is about to take the mutex again,
\* which a producer holds in the meantime.
C4_Witness ==
  /\ gh[Primary].op = "flush"
  /\ pc[Primary] = "flush_lock"
  /\ Len(gh[Primary].released) >= 2
  /\ mutex[1] \in Producers

\* C5: a record is recycled only when no queue holds it.  A record that was
\* handed to its source's release hook (its count dropped to zero in a
\* release) is in no buffer.
C5_RecycledNotBuffered ==
  \A e \in hist.recycled : \A q \in Queues : e \notin Range(events[q])

\* C6: unregister purge is an order-preserving filter.  Once unregister(Q, S)
\* has returned: if S was a member, S is not a member any more, no record of
\* S is buffered, the call removed and released exactly the same records,
\* all of them from S, each record of S that was buffered at the call was
\* released exactly once by Q, and the records of the other sources that
\* were buffered at the call are still there in their order; if S was not a
\* member, the call made no callback, removed and released nothing, and
\* left the membership list and the buffered records as they were.
C6_UnregisterPurge ==
  \A t \in Consumers :
    (pc[t] = "idle" /\ gh[t].op = "unregister") =>
      LET q == gh[t].q
          s == gh[t].src
      IN IF gh[t].found
         THEN /\ ~_al_vector_contains(sources[q], s)
              /\ From(s, events[q]) = <<>>
              /\ gh[t].removed = gh[t].released
              /\ From(s, gh[t].removed) = gh[t].removed
              /\ \A e \in Range(From(s, gh[t].snap)) :
                   /\ hist.relCount[q][e] = 1
                   /\ Count(gh[t].released, e) = 1
              /\ IsPrefix(NotFrom(s, gh[t].snap), NotFrom(s, events[q]))
              /\ gh[t].cbs[1] = "on_unregistered"
         ELSE /\ gh[t].cbs = <<>>
              /\ gh[t].removed = <<>>
              /\ gh[t].released = <<>>
              /\ sources[q] = gh[t].srcSnap
              /\ IsPrefix(gh[t].snap, events[q])

\* C7: timeout leaves the queue untouched.  A timed wait that reports
\* timeout (from the moment it decides so, and once it has returned false)
\* has taken no record out of the buffer, released none, made no callback
\* and written nothing to the caller's event.
C7_TimeoutUntouched ==
  \A t \in Consumers :
    (gh[t].op = "wait_timed"
       /\ \/ pc[t] = "wt_after" /\ loc[t].timed_out
          \/ pc[t] = "idle" /\ retval[t] = "false") =>
      /\ gh[t].removed = <<>>
      /\ gh[t].released = <<>>
      /\ gh[t].cbs = <<>>
      /\ retEvent[t] = NoCopy

\* A timed wait with a destination has returned false although a record was
\* in the buffer when it last held the mutex; the record is still there.
C7_Witness ==
  /\ pc[Primary] = "idle"
  /\ gh[Primary].op = "wait_timed"
  /\ gh[Primary].copy
  /\ retval[Primary] = "false"
  /\ ~gh[Primary].sawEmpty
  /\ events[1] # <<>>
  /\ events[1][1] = gh[Primary].sawHead

\* C8: no lost wake-up.  Whenever the consumer is blocked in
\* wait(queue, forever) and the buffer holds a record (a push was accepted),
\* the consumer eventually returns success.
C8_NoLostWakeup ==
  (pc[Primary] = "wf_wait" /\ events[1] # <<>>)
    ~> (pc[Primary] = "idle" /\ retval[Primary] = "true")

\* A wait-forever that blocked and was ended by a push's broadcast has
\* returned success.
C8_Witness ==
  /\ pc[Primary] = "idle"
  /\ gh[Primary].op = "wait_forever"
  /\ gh[Primary].signalled
  /\ gh[Primary].waits >= 1
  /\ retval[Primary] = "true"

\* C9: a successful removing wait delivers exactly one record.  The
\* assertions on next_event never fail; a wait evaluates its loop condition
\* and removes with the mutex held; a wait with a destination that returned
\* success removed exactly one record, the one that was at the head when it
\* looked, and copied that one; no record is removed twice, and no two
\* waiters hold copies of the same record.
C9_WaitDeliversOne ==
  /\ hist.asserts \cap {"wait_on_queue_forever", "wait_on_queue_timed"} = {}
  /\ \A t \in Consumers :
       pc[t] \in {"wf_check", "wt_check"} => mutex[loc[t].q] = t
  /\ \A t \in Consumers :
       (IsWaitOp(gh[t].op) /\ gh[t].copy /\ pc[t] = "idle" /\ retval[t] = "true") =>
         /\ Len(gh[t].removed) = 1
         /\ gh[t].removed[1] = gh[t].sawHead
         /\ gh[t].released = gh[t].removed
         /\ retEvent[t] = _al_copy_event(gh[t].sawHead)
  /\ \A q \in Queues : NoDuplicates(hist.removed[q])
  /\ \A t1, t2 \in Consumers :
       (t1 # t2 /\ retEvent[t1] # NoCopy /\ retEvent[t2] # NoCopy) =>
         retEvent[t1].id # retEvent[t2].id

\* Two waiters were blocked and woken by the broadcast of the only accepted
\* push; one of them has returned with the record, the other is blocked in
\* its second condition wait.
C9_Witness ==
  \E t1, t2 \in Consumers :
    /\ t1 # t2
    /\ Len(hist.accepted[1]) = 1
    /\ pc[t1] = "idle" /\ retval[t1] = "true"
    /\ gh[t1].op = "wait_forever" /\ gh[t1].copy /\ gh[t1].signalled
    /\ retEvent[t1].id = hist.accepted[1][1]
    /\ pc[t2] = "wf_wait" /\ t2 \in waiting[1]
    /\ gh[t2].signalled /\ gh[t2].waits = 2

\* C10: an empty queue is a value, not an error.  A get_next, peek_next or
\* drop_next that found the buffer empty left it empty, removed and
\* released nothing, made no callback, entered no condition wait, holds no
\* record, and returns false (drop_next: returns) without writing to the
\* caller's event.
C10_EmptyIsValue ==
  \A t \in Consumers :
    (gh[t].op \in {"get", "peek", "drop"} /\ gh[t].sawEmpty) =>
      /\ gh[t].leftEmpty
      /\ gh[t].removed = <<>>
      /\ gh[t].released = <<>>
      /\ gh[t].cbs = <<>>
      /\ gh[t].waits = 0
      /\ loc[t].ev = NoEvent
      /\ retEvent[t] = NoCopy
      /\ pc[t] = "idle" =>
           retval[t] = (IF gh[t].op = "drop" THEN "void" ELSE "false")

\* A get_next on an empty buffer has returned false.
C10_Witness ==
  /\ pc[Primary] = "idle"
  /\ gh[Primary].op = "get"
  /\ gh[Primary].sawEmpty
  /\ retval[Primary] = "false"

\* A step of thread t inside a peek_next: it takes nothing out of any
\* buffer, changes no reference count and releases nothing.
C11_PeekStep(t) ==
  (gh[t].op = "peek" /\ pc[t] # "idle" /\ pc'[t] # pc[t]) =>
    /\ events' = events
    /\ refcount' = refcount
    /\ hist'.relCount = hist.relCount
    /\ hist'.recycled = hist.recycled
    /\ gh'[t].removed = <<>>
    /\ gh'[t].released = <<>>

\* The look at the head by a peek_next or get_next that comes after a
\* peek_next, with nothing taken out of the buffer in between: it finds
\* the record the peek_next saw.
C11_NextLook(t) ==
  LET q == gh[t].q
  IN (gh[t].op \in {"peek", "get"} /\ pc[t] = "gpd_take" /\ pc'[t] = "gpd_after"
        /\ hist.seen[q].by = "peek")
     => /\ loc'[t].ev = hist.seen[q].ev
        /\ gh'[t].sawHead = hist.seen[q].ev

\* What peek_next and get_next hand back: true and a copy of the record
\* that was at the head, whenever there was one.
C11_Result ==
  \A t \in Consumers :
    (gh[t].op \in {"peek", "get"} /\ pc[t] = "idle" /\ gh[t].sawHead # NoEvent) =>
      /\ retval[t] = "true"
      /\ retEvent[t] = _al_copy_event(gh[t].sawHead)

\* The record a peek_next saw stays at the head of the buffer (so the
\* buffer is not empty) until some operation takes a record out.
C11_HeadStays ==
  \A q \in Queues :
    hist.seen[q].by = "peek" =>
      /\ ~_al_vector_is_empty(events[q])
      /\ _al_vector_ref_front(events[q]) = hist.seen[q].ev

\* C11: peek does not consume.  peek_next on a non-empty queue returns true
\* with a copy of the head record; no step of it changes a buffer or a
\* reference count or releases a record; the record stays at the head, and
\* a second peek_next or a get_next that follows with no removal in between
\* finds and returns that same record.
C11_PeekDoesNotConsume ==
  /\ [](C11_Result /\ C11_HeadStays)
  /\ [][\A t \in Consumers : C11_PeekStep(t) /\ C11_NextLook(t)]_vars

\* A peek_next saw record 2 at the head and returned; record 1 was pushed
\* behind it; nothing was taken out since, and a get_next that follows
\* holds the mutex and is about to take the head.
C11_Witness ==
  /\ gh[Primary].op = "get"
  /\ pc[Primary] = "gpd_take"
  /\ hist.seen[1] = [ev |-> 2, by |-> "peek"]
  /\ events[1] = <<2, 1>>
  /\ refcount[2] = 1

\* C12: unique membership.  In every reachable state the membership list of
\* a queue holds each source at most once; and a register that found the
\* source already a member has made no callback and, when no other thread
\* was registering or unregistering, left the membership list as it was.
C12_UniqueMembership ==
  /\ \A q \in Queues : NoDuplicates(sources[q])
  /\ \A t \in Consumers :
       (gh[t].op = "register" /\ pc[t] = "idle" /\ gh[t].found) =>
         /\ gh[t].cbs = <<>>
         /\ (\A u \in Consumers \ {t} : gh[u].op = "none")
              => sources[gh[t].q] = gh[t].srcSnap

\* The positions from which the next step of a thread reads or modifies
\* the buffer of the queue it works on (queue->events) ...
BufferAccess ==
  {"push_body", "gpd_take", "flush_loop", "wf_check", "wt_check",
   "unreg_loop", "unreg_delete", "destroy_loop"}
\* ... or its membership list (queue->sources).
MembershipAccess == {"reg_check", "reg_add", "unreg_find", "destroy_loop"}

\* C13: the queue mutex guards both buffer and membership list.  Whenever
\* the next step of a thread (in push, get_next, peek_next, drop_next,
\* flush, wait, register, unregister and its purge scan, or destroy) reads
\* or modifies the buffer or the membership list of a queue, that thread
\* holds the mutex of that queue.
C13_MutexGuards ==
  \A t \in Threads :
    pc[t] \in BufferAccess \cup MembershipAccess => mutex[loc[t].q] = t

\* The queues whose buffer holds record e.
Holders(e) == {q \in Queues : e \in Range(events[q])}

\* C14: ref-count equals the number of holding queues.  In every reachable
\* state no reference count is negative, and the count of every record that
\* is in at least one buffer is exactly the number of buffers that hold it.
C14_RefcountIsHolders ==
  \A e \in Events :
    /\ refcount[e] >= 0
    /\ Holders(e) # {} => refcount[e] = Cardinality(Holders(e))

\* What a flush that has returned did, when no push was accepted on the
\* queue since the call: the buffer is empty, and the records the call took
\* out and the records it released are the records buffered at the call,
\* each of them once.
C15_FlushDone ==
  \A t \in Consumers :
    LET q == gh[t].q
    IN (gh[t].op = "flush" /\ pc[t] = "idle" /\ hist.accepted[q] = gh[t].accSnap) =>
         /\ _al_vector_is_empty(events[q])
         /\ Len(gh[t].released) = Len(gh[t].snap)
         /\ gh[t].removed = gh[t].released
         /\ \A e \in Events :
              Count(gh[t].released, e) = Count(gh[t].snap, e)
         /\ \A e \in Range(gh[t].snap) : hist.relCount[q][e] = 1

\* C15: flush empties and releases exactly once.  A flush that is running
\* returns in the end; when no push was accepted while it ran, it leaves
\* the buffer empty (is_empty is true) and the queue has released each of
\* the records that were buffered at the call exactly once, and no other.
C15_FlushEmptiesAndReleases ==
  /\ [] C15_FlushDone
  /\ \A t \in Consumers :
       (gh[t].op = "flush" /\ pc[t] # "idle") ~> (gh[t].op = "flush" /\ pc[t] = "idle")

\* A flush of a full buffer holding a record of each source has returned:
\* nothing was pushed meanwhile, the buffer is empty, both records are
\* released and back with their sources.
C15_Witness ==
  /\ gh[Primary].op = "flush"
  /\ pc[Primary] = "idle"
  /\ Len(gh[Primary].snap) = MAX_QUEUE_SIZE
  /\ {SourceOf(e) : e \in Range(gh[Primary].snap)} = Sources
  /\ hist.accepted[1] = gh[Primary].accSnap
  /\ Len(gh[Primary].released) = MAX_QUEUE_SIZE
  /\ events[1] = <<>>
  /\ \A e \in Range(gh[Primary].snap) : refcount[e] = 0 /\ e \in hist.recycled

\* What a destroy that has returned did: no assertion failed, the buffer
\* and the membership list were empty when it looked (and the queue is
\* gone), every source that was a member at the call was told once that it
\* is unregistered and does not list the queue any more, and every record
\* that was buffered at the call, like every record the purges took out,
\* was released.
C16_DestroyDone ==
  \A t \in Consumers :
    LET q == gh[t].q
    IN (gh[t].op = "destroy" /\ pc[t] = "idle") =>
         /\ hist.asserts = {}
         /\ q \notin alive
         /\ _al_vector_is_empty(events[q])
         /\ _al_vector_is_empty(sources[q])
         /\ Count(gh[t].cbs, "on_unregistered") = Len(gh[t].srcSnap)
         /\ \A s \in Range(gh[t].srcSnap) : q \notin srcQueues[s]
         /\ Range(gh[t].snap) \subseteq Range(gh[t].released)
         /\ Range(gh[t].removed) \subseteq Range(gh[t].released)

C17_Handshake ==
  \A q \in Queues : \A s \in Sources :
    _al_vector_contains(sources[q], s) => q \in srcQueues[s]

\* Source 1 has been told that it is registered with queue 1 and is
\* already pushing a record to it, while the register call has not yet
\* added it to the membership list, which holds source 2.
C17_Witness ==
  /\ pc[Primary] = "reg_add"
  /\ loc[Primary].src = 1
  /\ sources[1] = <<2>>
  /\ srcQueues[1] = {1}
  /\ pc["p1"] = "push_body"
  /\ loc["p1"].q = 1

\* A step of thread t inside a wait without a destination: it takes nothing
\* out of any buffer, changes no reference count and releases nothing.
C18_WaitStep(t) ==
  (IsWaitOp(gh[t].op) /\ ~gh[t].copy /\ pc[t] # "idle" /\ pc'[t] # pc[t]) =>
    /\ events' = events
    /\ refcount' = refcount
    /\ hist'.relCount = hist.relCount
    /\ hist'.recycled = hist.recycled
    /\ gh'[t].removed = <<>>
    /\ gh'[t].released = <<>>

\* The look at the head by the get_next that comes after a successful wait
\* without a destination, with nothing taken out of the buffer in between:
\* it finds the record that made the wait succeed.
C18_NextGet(t) ==
  LET q == gh[t].q
  IN (gh[t].op = "get" /\ pc[t] = "gpd_take" /\ pc'[t] = "gpd_after"
        /\ IsWaitOp(hist.seen[q].by))
     => /\ loc'[t].ev = hist.seen[q].ev
        /\ gh'[t].sawHead = hist.seen[q].ev

\* A wait without a destination that returned success found a record at
\* the head, wrote nothing to the caller, and the record it found stays at
\* the head until some operation takes a record out.
C18_Observed ==
  /\ \A t \in Consumers :
       (IsWaitOp(gh[t].op) /\ ~gh[t].copy /\ pc[t] = "idle" /\ retval[t] = "true") =>
         /\ gh[t].sawHead # NoEvent
         /\ retEvent[t] = NoCopy
  /\ \A q \in Queues :
       IsWaitOp(hist.seen[q].by) =>
         /\ ~_al_vector_is_empty(events[q])
         /\ _al_vector_ref_front(events[q]) = hist.seen[q].ev

\* C18: wait without a destination only observes.  No step of a wait
\* (infinite or timed) called with a NULL destination changes a buffer or a
\* reference count or releases a record; when it returns success the record
\* that made it succeed is still at the head, and the next get_next takes
\* and returns it.
C18_WaitOnlyObserves ==
  /\ [](C18_Observed /\ C11_Result)
  /\ [][\A t \in Consumers : C18_WaitStep(t) /\ C18_NextGet(t)]_vars

\* A wait forever without a destination saw record 2 at the head and
\* returned; record 1 was pushed behind it; nothing was taken out since,
\* and the get_next that follows holds the mutex and is about to take the
\* head.
C18_Witness ==
  /\ gh[Primary].op = "get"
  /\ pc[Primary] = "gpd_take"
  /\ hist.seen[1] = [ev |-> 2, by |-> "wait_forever"]
  /\ events[1] = <<2, 1>>
  /\ refcount[2] = 1

\* A timed wait of thread t has decided on failure, or has returned it.
C19_Failed(t) ==
  /\ gh[t].op = "wait_timed"
  /\ \/ pc[t] = "wt_after" /\ loc[t].timed_out
     \/ pc[t] = "idle" /\ retval[t] = "false"
\* A timed wait of thread t has decided on success, or has returned it.
C19_Succeeded(t) ==
  /\ gh[t].op = "wait_timed"
  /\ \/ pc[t] = "wt_after" /\ ~loc[t].timed_out
     \/ pc[t] = "idle" /\ retval[t] = "true"
\* A timed wait of thread t is past its loop (events.c:347-348).
C19_Decided(t) == C19_Failed(t) \/ C19_Succeeded(t)

\* C19: a timed wait never reports timeout while an event is available.  A
\* timed wait that found the buffer non-empty at its first look made no
\* condition wait and succeeds; and whenever a timed wait fails, the buffer
\* was empty when the waiter last held the mutex.
C19_NoTimeoutWhileAvailable ==
  \A t \in Consumers :
    /\ (C19_Decided(t) /\ gh[t].waits = 0) => C19_Succeeded(t) /\ ~gh[t].sawEmpty
    /\ C19_Failed(t) => gh[t].sawEmpty

\* C19 as amended.  A timed wait that found the buffer non-empty at its
\* first look made no condition wait and succeeds; a timed wait fails
\* exactly when its last timed condition wait reported a timeout (so it has
\* made at least one), whatever the buffer holds when the waiter takes the
\* mutex again; and it succeeds only if the buffer was then non-empty.
C19_TimeoutIffWaitTimedOut ==
  \A t \in Consumers :
    /\ (C19_Decided(t) /\ gh[t].waits = 0) => C19_Succeeded(t) /\ ~gh[t].sawEmpty
    /\ C19_Failed(t) => gh[t].waits >= 1
    /\ C19_Succeeded(t) => ~gh[t].sawEmpty
    /\ (gh[t].op = "wait_timed" /\ pc[t] = "wt_after") =>
         (loc[t].timed_out <=> loc[t].result = -1)

\* A timed wait without a destination made one condition wait, which
\* reported a timeout; record 1 was accepted before the waiter had the
\* mutex again, and the wait has decided on failure with it in the buffer.
C19_Witness ==
  /\ gh[Primary].op = "wait_timed"
  /\ ~gh[Primary].copy
  /\ pc[Primary] = "wt_after"
  /\ loc[Primary].timed_out
  /\ loc[Primary].result = -1
  /\ gh[Primary].waits = 1
  /\ ~gh[Primary].sawEmpty
  /\ events[1] = <<1>>

\* The positions at which a thread is about to acquire a queue mutex.
LockAcquire == {"push_lock", "gpd_lock", "flush_lock", "wf_lock", "wt_lock",
                "wf_wait", "wt_wait", "wt_timedout"}

\* No thread holds a queue mutex while it is blocked in a condition wait,
\* while it acquires a mutex, while it is outside any call, or while it
\* runs a callback of a source.
C20_NoHoldWhileBlocked ==
  /\ \A q \in Queues : \A t \in waiting[q] : mutex[q] # t
  /\ \A t \in Threads :
       pc[t] \in LockAcquire \cup {"idle"} => \A q \in Queues : mutex[q] # t
  /\ hist.cbHeld = {}

\* C20: only wait blocks, and the system cannot deadlock on the queue
\* mutex.  No thread holds a queue mutex while blocked, while acquiring a
\* lock or while running a callback; so, under fair scheduling, every push
\* and every get_next, peek_next and drop_next that was called returns,
\* however many consumers are blocked in wait on the same queue.
C20_OnlyWaitBlocks ==
  /\ [] C20_NoHoldWhileBlocked
  /\ \A p \in Producers :
       (pc[p] \in {"push_lock", "push_body"}) ~> (pc[p] = "emit_loop")
  /\ \A t \in Consumers :
       (pc[t] \in {"gpd_lock", "gpd_take", "gpd_after"}) ~> (pc[t] = "idle")

\* One consumer is blocked in a condition wait on the empty queue while
\* the other is inside get_next about to take the mutex, a producer is
\* about to take it too, and no one holds it.
C20_Witness ==
  /\ pc["c2"] = "wf_wait"
  /\ "c2" \in waiting[1]
  /\ pc["c1"] = "gpd_lock"
  /\ pc["p1"] = "push_lock"
  /\ mutex[1] = NoThread
  /\ events[1] = <<>>

====
